---- MODULE Spec2Model ----
(***************************************************************************)
(* Model of the /query request pipeline of query_engine_ollama_langgraph:  *)
(* handle_query of src/app.py (OpenAI backend) and of src/main.py (Ollama  *)
(* backend).  Text is modelled character by character: a Python str is a   *)
(* sequence of one-character strings, so that the regular expressions,     *)
(* strip(), rstrip(";"), upper()/lower() and startswith() of the code are  *)
(* computed the way the code computes them.                                *)
(***************************************************************************)
EXTENDS Integers, Sequences, FiniteSets, TLC

(***************************************************************************)
(* Python str primitives                                                   *)
(***************************************************************************)

\* a Python str literal as a sequence of characters
Chars(s) == [i \in 1..Len(s) |-> SubSeq(s, i, i)]

LowerAlpha == Chars("abcdefghijklmnopqrstuvwxyz")
UpperAlpha == Chars("ABCDEFGHIJKLMNOPQRSTUVWXYZ")
Digits == Chars("0123456789")

\* the characters str.strip() removes and the regex class \s matches
IsSpace(c) == c \in {" ", "\t", "\n", "\r"}

\* the regex class \d
IsDigit(c) == \E i \in 1..10 : Digits[i] = c

DigitVal(c) == (CHOOSE i \in 1..10 : Digits[i] = c) - 1

ToLower(c) ==
  IF \E i \in 1..26 : UpperAlpha[i] = c
  THEN LowerAlpha[CHOOSE i \in 1..26 : UpperAlpha[i] = c]
  ELSE c

ToUpper(c) ==
  IF \E i \in 1..26 : LowerAlpha[i] = c
  THEN UpperAlpha[CHOOSE i \in 1..26 : LowerAlpha[i] = c]
  ELSE c

\* str.lower() and str.upper()
lower(s) == [i \in 1..Len(s) |-> ToLower(s[i])]
upper(s) == [i \in 1..Len(s) |-> ToUpper(s[i])]

\* s[i-1:] (1-based suffix starting at position i)
From(s, i) == SubSeq(s, i, Len(s))

\* p occurs in s starting at position i
OccursAt(s, p, i) ==
  /\ i >= 1
  /\ i + Len(p) - 1 <= Len(s)
  /\ \A j \in 1..Len(p) : s[i + j - 1] = p[j]

\* Python `p in s`
Contains(s, p) == \E i \in 1..(Len(s) + 1) : OccursAt(s, p, i)

\* str.startswith
startswith(s, p) == OccursAt(s, p, 1)

\* first position >= i of s that is not whitespace (Len(s)+1 when none):
\* where a greedy \s* starting at i stops
RECURSIVE SkipSpaces(_, _)
SkipSpaces(s, i) ==
  IF i <= Len(s) /\ IsSpace(s[i]) THEN SkipSpaces(s, i + 1) ELSE i

\* first position >= i of s that is not a digit: where a greedy \d+ stops
RECURSIVE SkipDigits(_, _)
SkipDigits(s, i) ==
  IF i <= Len(s) /\ IsDigit(s[i]) THEN SkipDigits(s, i + 1) ELSE i

\* last position <= i of s that is not whitespace (0 when none)
RECURSIVE BackSpaces(_, _)
BackSpaces(s, i) ==
  IF i >= 1 /\ IsSpace(s[i]) THEN BackSpaces(s, i - 1) ELSE i

\* str.strip()
strip(s) == SubSeq(s, SkipSpaces(s, 1), BackSpaces(s, Len(s)))

\* str.rstrip(";"): every trailing ";" is removed
RECURSIVE rstrip_semicolon(_)
rstrip_semicolon(s) ==
  IF Len(s) > 0 /\ s[Len(s)] = ";"
  THEN rstrip_semicolon(SubSeq(s, 1, Len(s) - 1))
  ELSE s

\* int() of a run of decimal digits
RECURSIVE int(_)
int(s) ==
  IF Len(s) = 0 THEN 0
  ELSE 10 * int(SubSeq(s, 1, Len(s) - 1)) + DigitVal(s[Len(s)])

(***************************************************************************)
(* Limit Extractor (app.py lines 100-111)                                  *)
(***************************************************************************)

\* app.py: limit_keywords, and the alternatives of the regex of line 106
limit_keywords == <<Chars("limit"), Chars("top"), Chars("first"), Chars("show only")>>

\* app.py: top_k when a limit keyword is present without a number
DefaultTopK == 10

\* app.py: the row cap handed to the backend when no limit was requested
UnlimitedTopK == 1000

\* Python None for top_k
None == -1

\* any(keyword in nl_question.lower() for keyword in limit_keywords)
HasLimitKeyword(q) ==
  \E k \in 1..Len(limit_keywords) : Contains(lower(q), limit_keywords[k])

\* (?:limit|top|first|show only)\s*(\d+) matches s starting at position i
LimitPatternAt(s, i) ==
  \E k \in 1..Len(limit_keywords) :
     /\ OccursAt(s, limit_keywords[k], i)
     /\ LET d == SkipSpaces(s, i + Len(limit_keywords[k]))
        IN  d <= Len(s) /\ IsDigit(s[d])

\* group(1) of the match that starts at position i
LimitGroupAt(s, i) ==
  LET k == CHOOSE a \in 1..Len(limit_keywords) :
             /\ OccursAt(s, limit_keywords[a], i)
             /\ LET d == SkipSpaces(s, i + Len(limit_keywords[a]))
                IN  d <= Len(s) /\ IsDigit(s[d])
      d == SkipSpaces(s, i + Len(limit_keywords[k]))
  IN  SubSeq(s, d, SkipDigits(s, d) - 1)

\* variant of re_search_limit that keeps the last match instead of the first
re_search_limit_last(s) ==
  IF \E i \in 1..Len(s) : LimitPatternAt(s, i)
  THEN LET i == CHOOSE a \in 1..Len(s) :
                  /\ LimitPatternAt(s, a)
                  /\ \A b \in (a + 1)..Len(s) : ~LimitPatternAt(s, b)
       IN  <<LimitGroupAt(s, i)>>
  ELSE <<>>

\* re.search(pattern, s): the leftmost match, as <<group(1)>>, or <<>> for no match
re_search_limit(s) ==
  IF \E i \in 1..Len(s) : LimitPatternAt(s, i)
  THEN LET i == CHOOSE a \in 1..Len(s) :
                  /\ LimitPatternAt(s, a)
                  /\ \A b \in 1..(a - 1) : ~LimitPatternAt(s, b)
       IN  <<LimitGroupAt(s, i)>>
  ELSE <<>>

\* the for/else of lines 103-111
extract_top_k(q) ==
  IF HasLimitKeyword(q)
  THEN LET m == re_search_limit(lower(q))
       IN  IF m # <<>> THEN int(m[1]) ELSE DefaultTopK
  ELSE None

\* line 117: top_k if top_k is not None else 1000
BackendTopK(k) == IF k # None THEN k ELSE UnlimitedTopK

(***************************************************************************)
(* SQL Extractor/Normalizer (app.py lines 129-141)                         *)
(***************************************************************************)

\* the backquote character of a markdown fence (SANY admits no backquote
\* inside a string literal, so the character gets a name)
Backquote == "BACKQUOTE"

FenceClose == <<Backquote, Backquote, Backquote>>
FenceOpen == FenceClose \o Chars("sql")
SqlQueryPrefix == Chars("SQLQuery:")

\* \s*``` matches t from position e
CloseAt(t, e) == \E c \in e..SkipSpaces(t, e) : OccursAt(t, FenceClose, c)

\* least e >= a from which \s*``` matches, or 0: where the lazy (.*?) stops
RECURSIVE LazyEnd(_, _)
LazyEnd(t, a) ==
  IF a > Len(t) + 1 THEN 0
  ELSE IF CloseAt(t, a) THEN a
  ELSE LazyEnd(t, a + 1)

\* ```sql\s*(.*?)\s*``` matches t from position i with the first \s* ending
\* just before position p
FenceMatchAt(t, i, p) ==
  /\ OccursAt(t, FenceOpen, i)
  /\ p \in (i + Len(FenceOpen))..SkipSpaces(t, i + Len(FenceOpen))
  /\ LazyEnd(t, p) # 0

\* least i >= a from which the pattern matches, or 0
RECURSIVE FenceStart(_, _)
FenceStart(t, a) ==
  IF a > Len(t) THEN 0
  ELSE IF \E p \in a..(Len(t) + 1) : FenceMatchAt(t, a, p) THEN a
  ELSE FenceStart(t, a + 1)

\* variant of re_search_fence with a greedy (.*) in place of the lazy (.*?):
\* the group runs to the last closing fence
re_search_fence_greedy(t) ==
  LET i == FenceStart(t, 1)
  IN  IF i = 0 THEN <<>>
      ELSE LET p == SkipSpaces(t, i + Len(FenceOpen))
               e == CHOOSE a \in p..(Len(t) + 1) :
                      /\ CloseAt(t, a)
                      /\ \A b \in (a + 1)..(Len(t) + 1) : ~CloseAt(t, b)
           IN  <<SubSeq(t, p, e - 1)>>

\* re.search(sql_pattern, t, re.DOTALL): <<group(1)>> of the leftmost match
\* (the greedy \s* takes the longest run that still lets the rest match, the
\* lazy .*? the shortest text), or <<>> for no match
re_search_fence(t) ==
  LET i == FenceStart(t, 1)
  IN  IF i = 0 THEN <<>>
      ELSE LET lo == i + Len(FenceOpen)
               hi == SkipSpaces(t, lo)
               p == CHOOSE a \in lo..hi :
                      /\ FenceMatchAt(t, i, a)
                      /\ \A b \in (a + 1)..hi : ~FenceMatchAt(t, i, b)
           IN  <<SubSeq(t, p, LazyEnd(t, p) - 1)>>

\* lines 133-141: the candidate statement
normalize(generated_query) ==
  LET sql_match == re_search_fence(generated_query)
  IN  IF sql_match # <<>>
      THEN strip(sql_match[1])
      ELSE LET s == strip(generated_query)
               u == IF startswith(s, SqlQueryPrefix)
                    THEN strip(From(s, Len(SqlQueryPrefix) + 1))
                    ELSE s
           IN  strip(rstrip_semicolon(u))

(***************************************************************************)
(* Statement Validator (app.py line 146)                                   *)
(***************************************************************************)

AllowedKeywords == <<Chars("SELECT"), Chars("SHOW"), Chars("DESCRIBE")>>

\* variant of is_valid_sql that looks for the keyword anywhere in the text
is_valid_sql_anywhere(sql_query) ==
  \E k \in 1..Len(AllowedKeywords) : Contains(upper(sql_query), AllowedKeywords[k])

\* any(sql_query.upper().startswith(keyword) for keyword in [...])
is_valid_sql(sql_query) ==
  \E k \in 1..Len(AllowedKeywords) : startswith(upper(sql_query), AllowedKeywords[k])

(***************************************************************************)
(* Limit Enforcer (app.py lines 154-155)                                   *)
(***************************************************************************)

LimitWord == Chars("LIMIT")

\* \s*LIMIT\s+\d+ (re.IGNORECASE) matches s from position i, u being
\* upper(s): the position just after the match, or 0 when there is no match at i
LimitClauseEnd(s, u, i) ==
  LET a == SkipSpaces(s, i)
      b == a + Len(LimitWord)
      c == SkipSpaces(s, b)
  IN  IF /\ OccursAt(u, LimitWord, a)
         /\ c > b
         /\ c <= Len(s)
         /\ IsDigit(s[c])
      THEN SkipDigits(s, c)
      ELSE 0

\* re.sub(pattern, '', s): every non-overlapping match, found left to right
\* from position i on, is deleted
RECURSIVE re_sub_limit_from(_, _, _)
re_sub_limit_from(s, u, i) ==
  IF i > Len(s) THEN <<>>
  ELSE LET e == LimitClauseEnd(s, u, i)
       IN  IF e # 0
           THEN re_sub_limit_from(s, u, e)
           ELSE <<s[i]>> \o re_sub_limit_from(s, u, i + 1)

re_sub_limit(s) == re_sub_limit_from(s, upper(s), 1)

\* variant of enforce_limit that strips the clause whatever the question says
enforce_limit_always(nl_question, sql_query) == re_sub_limit(sql_query)

\* lines 154-155
enforce_limit(nl_question, sql_query) ==
  IF ~HasLimitKeyword(nl_question) THEN re_sub_limit(sql_query) ELSE sql_query

(***************************************************************************)
(* Result parsing for the summarizer (app.py lines 171-176)                *)
(***************************************************************************)

\* app.py line 174: rows of the ResultSet handed to the summarizer
SampleRows == 5

\* the text of one single-column row, "(d,)"
IsRowText(r) ==
  Len(r) = 4 /\ r[1] = "(" /\ IsDigit(r[2]) /\ r[3] = "," /\ r[4] = ")"

\* ast.literal_eval on the texts db.run returns in this model:
\* "[(1,), (2,)]" is a list of rows, a run of digits is an int, anything
\* else raises ValueError or SyntaxError
literal_eval(text) ==
  LET n == Len(text)
      inner == SubSeq(text, 2, n - 1)
      k == (Len(inner) + 2) \div 6
  IN  IF n >= 1 /\ \A i \in 1..n : IsDigit(text[i])
      THEN [type |-> "int", rows |-> <<>>]
      ELSE IF /\ n >= 2 /\ text[1] = "[" /\ text[n] = "]"
              /\ (Len(inner) = 0 \/ (Len(inner) + 2) % 6 = 0)
              /\ \A j \in 1..k :
                    /\ IsRowText(SubSeq(inner, 6 * (j - 1) + 1, 6 * (j - 1) + 4))
                    /\ j < k => SubSeq(inner, 6 * j - 1, 6 * j) = Chars(", ")
           THEN [type |-> "list",
                 rows |-> [j \in 1..(IF Len(inner) = 0 THEN 0 ELSE k) |->
                             SubSeq(inner, 6 * (j - 1) + 1, 6 * (j - 1) + 4)]]
           ELSE [type |-> "error", rows |-> <<>>]

\* str() of a list of rows
RECURSIVE JoinRows(_)
JoinRows(rows) ==
  IF Len(rows) = 0 THEN <<>>
  ELSE IF Len(rows) = 1 THEN rows[1]
  ELSE rows[1] \o Chars(", ") \o JoinRows(Tail(rows))

str_list(rows) == Chars("[") \o JoinRows(rows) \o Chars("]")

\* results_list[:5]
first_rows(rows) == SubSeq(rows, 1, IF Len(rows) < SampleRows THEN Len(rows) ELSE SampleRows)

\* lines 171-176: <<results_summary>>, or <<>> when results_list[:5] raises
\* TypeError (a literal that is not a sequence), which the except clause of
\* line 175 does not catch
summarize_input(query_results) ==
  IF Len(query_results) = 0
  THEN <<str_list(<<>>)>>
  ELSE LET v == literal_eval(query_results)
       IN  CASE v.type = "list" -> <<str_list(first_rows(v.rows))>>
             [] v.type = "int" -> <<>>
             [] OTHER -> <<IF Len(query_results) = 0
                           THEN Chars("No results returned.")
                           ELSE query_results>>

(***************************************************************************)
(* Requests and the collaborators' answers                                 *)
(***************************************************************************)

\* longest run of digits in a composed question
MaxDigits == 2

\* most rows in a ResultSet
MaxRows == 6

JStr(s) == [t |-> "str", v |-> s]
JInt(s) == [t |-> "int", v |-> s]
JNull == [t |-> "null", v |-> <<>>]

QDigits == {"0", "3"}

DigitStrings == UNION {[1..n -> QDigits] : n \in 1..MaxDigits}

QKeywords == {<<>>, Chars("top"), Chars("Limit"), Chars("show only")}

QGaps == {<<>>, Chars(" ")}

ExampleQuestions ==
  { Chars("list all vessels"), Chars("show top 3 cradles"), Chars("top 5 cradles"),
    Chars("first 3 of the top 5"), Chars("stop"), Chars("5 top cradles"),
    Chars("show  only 4"), Chars("top the 3"), Chars("list First\n12") }

Questions ==
  ExampleQuestions \cup
  {k \o g \o d : k \in QKeywords, g \in QGaps, d \in {<<>>} \cup DigitStrings}

\* what request.get_json() can yield: None, an object without the key, an
\* empty object, an array holding "prompt", an object whose prompt is a
\* string or is not one
Bodies ==
  { [t |-> "null", keys |-> {}, prompt |-> JNull],
    [t |-> "object", keys |-> {}, prompt |-> JNull],
    [t |-> "object", keys |-> {"question"}, prompt |-> JNull],
    [t |-> "array", keys |-> {"prompt"}, prompt |-> JNull],
    [t |-> "object", keys |-> {"prompt"}, prompt |-> JNull],
    [t |-> "object", keys |-> {"prompt"}, prompt |-> JInt(Chars("5"))] }
  \cup {[t |-> "object", keys |-> {"prompt"}, prompt |-> JStr(q)] : q \in Questions}

SelectBodies == {Chars("SELECT * FROM vessels")}

Tails ==
  { <<>>, Chars(";"), Chars(" LIMIT 1000"), Chars("\nlimit 3;"),
    Chars(" LIMIT LIMIT 5 3"), Chars(" FETCH FIRST 5 ROWS ONLY") }

OtherStatements ==
  { Chars("DROP TABLE vessels;"), <<>>, Chars("SHOW TABLES;;"), Chars("describe t ; "),
    Chars("SELECTED"), Chars("I cannot answer that."),
    Chars("SELECT * FROM cradles LIMIT 3"), Chars("SELECT 1; DROP TABLE x;") }

Statements == {b \o t : b \in SelectBodies, t \in Tails} \cup OtherStatements

\* the shapes in which the backend wraps a statement
Wrap(w, s) ==
  CASE w = 1 -> s
    [] w = 2 -> Chars(" SQLQuery: ") \o s \o Chars("\n")
    [] w = 3 -> FenceOpen \o Chars("\n") \o s \o Chars("\n") \o FenceClose
    [] w = 4 -> Chars("Here:\n") \o FenceOpen \o Chars(" ") \o s \o FenceClose
                  \o Chars(" and ") \o FenceClose

GeneratedTexts ==
  {Wrap(w, s) : w \in 1..4, s \in Statements}
  \cup {FenceClose \o Chars("\nSELECT 1\n") \o FenceClose,
        FenceClose \o Chars("SQL\nSELECT 1\n") \o FenceClose,
        FenceOpen \o Chars("\nSELECT 1")}

RECURSIVE RowsText(_)
RowsText(n) ==
  IF n = 0 THEN <<>>
  ELSE (IF n = 1 THEN <<>> ELSE RowsText(n - 1) \o Chars(", "))
       \o <<"(", Digits[(n % 10) + 1], ",", ")">>

\* what db.run can return
ResultSets ==
  { <<>>, Chars("[") \o RowsText(1) \o Chars("]"),
    Chars("[") \o RowsText(MaxRows) \o Chars("]"),
    Chars("7"), Chars("[(Decimal('1.5'),)]") }

DescriptionText == Chars("The results show the vessels.")

GenerationErrors == {"KeyError", "Exception"}

ErrorText == Chars("boom")

(***************************************************************************)
(* The request handler as a state machine                                  *)
(***************************************************************************)

VARIABLES
  handler,          \* "app" (src/app.py) or "main" (src/main.py)
  pc,               \* position of the request in handle_query
  data,             \* request.get_json(), or InvalidBody when it raised
  nl_question,      \* data['prompt']
  top_k,
  generated_query,
  sql_query,
  candidate,        \* sql_query as the normalizer left it (line 143)
  query_results,
  results_summary,
  description,
  calls,            \* the calls made to the collaborators, in order
  response          \* [http, body]: the status code and the JSON object

vars == <<handler, pc, data, nl_question, top_k, generated_query, sql_query,
          candidate, query_results, results_summary, description, calls, response>>

NoResponse == [http |-> 0, body |-> <<>>]

\* one call to a collaborator: its statement or row-cap argument, whether it
\* raised, and the text it returned
Call(fn, sql, k, raised, ret) ==
  [fn |-> fn, sql |-> sql, top_k |-> k, raised |-> raised, ret |-> ret]

\* jsonify({"error": msg}), code
ErrorResponse(msg, code) == [http |-> code, body |-> ("error" :> msg)]

\* variant of DiagnosticResponse that answers 500 whatever the stage
DiagnosticResponse_always500(msg, g, s, code) ==
  [http |-> 500, body |-> ("error" :> msg @@ "generated_query" :> g @@ "sql_query" :> s)]

\* jsonify({"error": msg, "generated_query": g, "sql_query": s}), code
DiagnosticResponse(msg, g, s, code) ==
  [http |-> code, body |-> ("error" :> msg @@ "generated_query" :> g @@ "sql_query" :> s)]

\* variant of UnexpectedResponse that also carries a status key
UnexpectedResponse_with_status(msg) ==
  [http |-> 500,
   body |-> ("status" :> Chars("error") @@ "error" :> Chars("Unexpected error: ") \o msg)]

\* lines 200-204: the handler's outer except
UnexpectedResponse(msg) == ErrorResponse(Chars("Unexpected error: ") \o msg, 500)

Init ==
  /\ handler \in {"app", "main"}
  /\ pc = "start"
  /\ data = [t |-> "null", keys |-> {}, prompt |-> JNull]
  /\ nl_question = JNull
  /\ top_k = None
  /\ generated_query = <<>>
  /\ sql_query = <<>>
  /\ candidate = <<>>
  /\ query_results = <<>>
  /\ results_summary = <<>>
  /\ description = <<>>
  /\ calls = <<>>
  /\ response = NoResponse

\* a response leaves the handler
Return(r) == /\ response' = r
             /\ pc' = "done"

\* a request whose body get_json refuses: it raises, and data is never bound
InvalidBody == [t |-> "invalid", keys |-> {}, prompt |-> JNull]

\* not data or 'prompt' not in data
MissingPrompt(d) ==
  \/ d.t = "null"
  \/ d.keys = {}
  \/ "prompt" \notin d.keys

\* app.py lines 89-98; the body is unparseable when get_json raises
Receive ==
  /\ handler = "app"
  /\ pc = "start"
  /\ \/ \E d \in Bodies :
          /\ data' = d
          /\ IF MissingPrompt(d)
             THEN /\ Return(ErrorResponse(Chars("Missing 'prompt' in JSON payload"), 400))
                  /\ UNCHANGED nl_question
             ELSE IF d.t # "object"
             THEN /\ Return(UnexpectedResponse(Chars("list indices must be integers")))
                  /\ UNCHANGED nl_question
             ELSE /\ nl_question' = d.prompt
                  /\ pc' = "limit"
                  /\ UNCHANGED response
     \/ /\ data' = InvalidBody
        /\ Return(UnexpectedResponse(Chars("400 Bad Request")))
        /\ UNCHANGED nl_question
  /\ UNCHANGED <<handler, top_k, generated_query, sql_query, candidate, query_results,
                 results_summary, description, calls>>

\* app.py lines 100-111; nl_question.lower() raises AttributeError when the
\* prompt is not a str
ExtractLimit ==
  /\ handler = "app"
  /\ pc = "limit"
  /\ IF nl_question.t = "str"
     THEN /\ top_k' = extract_top_k(nl_question.v)
          /\ pc' = "generate"
          /\ UNCHANGED response
     ELSE /\ Return(UnexpectedResponse(Chars("object has no attribute 'lower'")))
          /\ UNCHANGED top_k
  /\ UNCHANGED <<handler, data, nl_question, generated_query, sql_query, candidate,
                 query_results, results_summary, description, calls>>

\* variant of Generate that calls the SQL chain a second time after it raised
Generate_retry ==
  /\ handler = "app"
  /\ pc = "generate"
  /\ \/ \E g \in GeneratedTexts :
          /\ generated_query' = g
          /\ calls' = calls \o <<Call("get_table_info", <<>>, None, FALSE, <<>>),
                                 Call("sql_query_chain.invoke", <<>>, BackendTopK(top_k), FALSE, g)>>
          /\ pc' = "extract"
          /\ UNCHANGED response
     \/ \E e \in GenerationErrors :
          /\ calls' = calls \o <<Call("get_table_info", <<>>, None, FALSE, <<>>),
                                 Call("sql_query_chain.invoke", <<>>, BackendTopK(top_k), TRUE, <<>>),
                                 Call("sql_query_chain.invoke", <<>>, BackendTopK(top_k), TRUE, <<>>)>>
          /\ IF e = "KeyError"
             THEN Return(ErrorResponse(Chars("Error generating query: Missing key ") \o ErrorText, 500))
             ELSE Return(UnexpectedResponse(ErrorText))
          /\ UNCHANGED generated_query
     \/ \E e \in GenerationErrors :
          /\ calls' = calls \o <<Call("get_table_info", <<>>, None, TRUE, <<>>)>>
          /\ IF e = "KeyError"
             THEN Return(ErrorResponse(Chars("Error generating query: Missing key ") \o ErrorText, 500))
             ELSE Return(UnexpectedResponse(ErrorText))
          /\ UNCHANGED generated_query
  /\ UNCHANGED <<handler, data, nl_question, top_k, sql_query, candidate, query_results,
                 results_summary, description>>

\* app.py lines 113-127: db.get_table_info(), then sql_query_chain.invoke;
\* a KeyError of either is answered at line 123, any other error at line 200
Generate ==
  /\ handler = "app"
  /\ pc = "generate"
  /\ \/ \E g \in GeneratedTexts :
          /\ generated_query' = g
          /\ calls' = calls \o <<Call("get_table_info", <<>>, None, FALSE, <<>>),
                                 Call("sql_query_chain.invoke", <<>>, BackendTopK(top_k), FALSE, g)>>
          /\ pc' = "extract"
          /\ UNCHANGED response
     \/ \E e \in GenerationErrors :
          /\ calls' = calls \o <<Call("get_table_info", <<>>, None, FALSE, <<>>),
                                 Call("sql_query_chain.invoke", <<>>, BackendTopK(top_k), TRUE, <<>>)>>
          /\ IF e = "KeyError"
             THEN Return(ErrorResponse(Chars("Error generating query: Missing key ") \o ErrorText, 500))
             ELSE Return(UnexpectedResponse(ErrorText))
          /\ UNCHANGED generated_query
     \/ \E e \in GenerationErrors :
          /\ calls' = calls \o <<Call("get_table_info", <<>>, None, TRUE, <<>>)>>
          /\ IF e = "KeyError"
             THEN Return(ErrorResponse(Chars("Error generating query: Missing key ") \o ErrorText, 500))
             ELSE Return(UnexpectedResponse(ErrorText))
          /\ UNCHANGED generated_query
  /\ UNCHANGED <<handler, data, nl_question, top_k, sql_query, candidate, query_results,
                 results_summary, description>>

\* app.py lines 129-143
Extract ==
  /\ handler = "app"
  /\ pc = "extract"
  /\ sql_query' = normalize(generated_query)
  /\ candidate' = sql_query'
  /\ pc' = "validate"
  /\ UNCHANGED <<handler, data, nl_question, top_k, generated_query,
                 query_results, results_summary, description, calls, response>>

\* app.py lines 145-151
Validate ==
  /\ handler = "app"
  /\ pc = "validate"
  /\ IF is_valid_sql(sql_query)
     THEN /\ pc' = "enforce"
          /\ UNCHANGED response
     ELSE Return(DiagnosticResponse(Chars("Generated query is not valid SQL"),
                                    generated_query, sql_query, 400))
  /\ UNCHANGED <<handler, data, nl_question, top_k, generated_query, sql_query, candidate,
                 query_results, results_summary, description, calls>>

\* app.py lines 153-155
EnforceLimit ==
  /\ handler = "app"
  /\ pc = "enforce"
  /\ sql_query' = enforce_limit(nl_question.v, sql_query)
  /\ pc' = "execute"
  /\ UNCHANGED <<handler, data, nl_question, top_k, generated_query, candidate,
                 query_results, results_summary, description, calls, response>>

\* variant of Execute that runs a failed statement a second time
Execute_retry ==
  /\ handler = "app"
  /\ pc = "execute"
  /\ \/ \E r \in ResultSets :
          /\ query_results' = r
          /\ calls' = Append(calls, Call("db.run", sql_query, None, FALSE, r))
          /\ pc' = "parse"
          /\ UNCHANGED response
     \/ /\ calls' = calls \o <<Call("db.run", sql_query, None, TRUE, <<>>),
                               Call("db.run", sql_query, None, TRUE, <<>>)>>
        /\ Return(DiagnosticResponse(Chars("Error executing query: ") \o ErrorText,
                                     generated_query, sql_query, 500))
        /\ UNCHANGED query_results
  /\ UNCHANGED <<handler, data, nl_question, top_k, generated_query, sql_query, candidate,
                 results_summary, description>>

\* app.py lines 157-168
Execute ==
  /\ handler = "app"
  /\ pc = "execute"
  /\ \/ \E r \in ResultSets :
          /\ query_results' = r
          /\ calls' = Append(calls, Call("db.run", sql_query, None, FALSE, r))
          /\ pc' = "parse"
          /\ UNCHANGED response
     \/ /\ calls' = Append(calls, Call("db.run", sql_query, None, TRUE, <<>>))
        /\ Return(DiagnosticResponse(Chars("Error executing query: ") \o ErrorText,
                                     generated_query, sql_query, 500))
        /\ UNCHANGED query_results
  /\ UNCHANGED <<handler, data, nl_question, top_k, generated_query, sql_query, candidate,
                 results_summary, description>>

\* app.py lines 170-176
ParseResults ==
  /\ handler = "app"
  /\ pc = "parse"
  /\ LET s == summarize_input(query_results)
     IN  IF s # <<>>
         THEN /\ results_summary' = s[1]
              /\ pc' = "describe"
              /\ UNCHANGED response
         ELSE /\ Return(UnexpectedResponse(Chars("'int' object is not subscriptable")))
              /\ UNCHANGED results_summary
  /\ UNCHANGED <<handler, data, nl_question, top_k, generated_query, sql_query, candidate,
                 query_results, description, calls>>

\* variant of Describe without the local try/except: a failure of the
\* summarization call reaches the outer except
Describe_unguarded ==
  /\ handler = "app"
  /\ pc = "describe"
  /\ \/ /\ description' = DescriptionText
        /\ calls' = Append(calls, Call("result_description_chain.invoke", sql_query, None, FALSE, DescriptionText))
        /\ pc' = "respond"
        /\ UNCHANGED response
     \/ /\ calls' = Append(calls, Call("result_description_chain.invoke", sql_query, None, TRUE, <<>>))
        /\ Return(UnexpectedResponse(ErrorText))
        /\ UNCHANGED description
  /\ UNCHANGED <<handler, data, nl_question, top_k, generated_query, sql_query, candidate,
                 query_results, results_summary>>

\* app.py lines 178-188
Describe ==
  /\ handler = "app"
  /\ pc = "describe"
  /\ \/ /\ description' = DescriptionText
        /\ calls' = Append(calls, Call("result_description_chain.invoke", sql_query, None, FALSE, DescriptionText))
     \/ /\ description' = Chars("Unable to generate description: ") \o ErrorText
        /\ calls' = Append(calls, Call("result_description_chain.invoke", sql_query, None, TRUE, <<>>))
  /\ pc' = "respond"
  /\ UNCHANGED <<handler, data, nl_question, top_k, generated_query, sql_query, candidate,
                 query_results, results_summary, response>>

\* jsonify of lines 191-198
SuccessResponse(q, g, s, r, d) ==
  [http |-> 200,
   body |-> ("status" :> Chars("success") @@ "original_question" :> q
             @@ "generated_query" :> g @@ "sql_query" :> s
             @@ "query_results" :> r @@ "description" :> d)]

\* app.py lines 190-198
Respond ==
  /\ handler = "app"
  /\ pc = "respond"
  /\ Return(SuccessResponse(nl_question.v, generated_query, sql_query, query_results,
                            description))
  /\ UNCHANGED <<handler, data, nl_question, top_k, generated_query, sql_query, candidate,
                 query_results, results_summary, description, calls>>

(***************************************************************************)
(* handle_query of src/main.py                                             *)
(***************************************************************************)

\* main.py lines 100-103: re.search(..., nl_question, re.I)
main_top_k(q) ==
  LET m == re_search_limit(lower(q))
  IN  IF m # <<>> THEN int(m[1]) ELSE UnlimitedTopK

\* main.py lines 91-97
MainReceive ==
  /\ handler = "main"
  /\ pc = "start"
  /\ \/ \E d \in Bodies :
          /\ data' = d
          /\ IF MissingPrompt(d)
             THEN /\ Return(ErrorResponse(Chars("Missing 'prompt' in JSON"), 400))
                  /\ UNCHANGED nl_question
             ELSE IF d.t # "object"
             THEN /\ Return(UnexpectedResponse(Chars("list indices must be integers")))
                  /\ UNCHANGED nl_question
             ELSE /\ nl_question' = d.prompt
                  /\ pc' = "limit"
                  /\ UNCHANGED response
     \/ /\ data' = InvalidBody
        /\ Return(UnexpectedResponse(Chars("400 Bad Request")))
        /\ UNCHANGED nl_question
  /\ UNCHANGED <<handler, top_k, generated_query, sql_query, candidate, query_results,
                 results_summary, description, calls>>

\* main.py lines 99-103; re.search raises TypeError when the prompt is not a str
MainExtractLimit ==
  /\ handler = "main"
  /\ pc = "limit"
  /\ IF nl_question.t = "str"
     THEN /\ top_k' = main_top_k(nl_question.v)
          /\ pc' = "generate"
          /\ UNCHANGED response
     ELSE /\ Return(UnexpectedResponse(Chars("expected string or bytes-like object")))
          /\ UNCHANGED top_k
  /\ UNCHANGED <<handler, data, nl_question, generated_query, sql_query, candidate,
                 query_results, results_summary, description, calls>>

\* main.py lines 105-111: no inner try, every failure reaches the outer except
MainGenerate ==
  /\ handler = "main"
  /\ pc = "generate"
  /\ \/ \E g \in GeneratedTexts :
          /\ generated_query' = g
          /\ calls' = calls \o <<Call("get_table_info", <<>>, None, FALSE, <<>>),
                                 Call("sql_query_chain.invoke", <<>>, top_k, FALSE, g)>>
          /\ pc' = "extract"
          /\ UNCHANGED response
     \/ /\ calls' = calls \o <<Call("get_table_info", <<>>, None, FALSE, <<>>),
                               Call("sql_query_chain.invoke", <<>>, top_k, TRUE, <<>>)>>
        /\ Return(UnexpectedResponse(ErrorText))
        /\ UNCHANGED generated_query
     \/ /\ calls' = calls \o <<Call("get_table_info", <<>>, None, TRUE, <<>>)>>
        /\ Return(UnexpectedResponse(ErrorText))
        /\ UNCHANGED generated_query
  /\ UNCHANGED <<handler, data, nl_question, top_k, sql_query, candidate, query_results,
                 results_summary, description>>

SelectWord == Chars("SELECT")

\* first position >= a of t that holds ";" (0 when none)
RECURSIVE FirstSemicolon(_, _)
FirstSemicolon(t, a) ==
  IF a > Len(t) THEN 0
  ELSE IF t[a] = ";" THEN a
  ELSE FirstSemicolon(t, a + 1)

\* main.py line 60, ```(?:sql)?\s*(SELECT.*?)\s*``` with re.I | re.S, tried at
\* position i of t (u is t in upper case): the position where group 1 begins,
\* or 0.  The optional sql is taken when present, given up when the rest
\* fails; a greedy \s* cannot give back a space to the S of SELECT.
CodeBlockSelectAt(t, u, i) ==
  IF ~OccursAt(t, FenceClose, i) THEN 0
  ELSE LET a == i + Len(FenceClose)
           Ok(p) == OccursAt(u, SelectWord, p) /\ LazyEnd(t, p + Len(SelectWord)) # 0
           with == IF OccursAt(u, Chars("SQL"), a) THEN SkipSpaces(t, a + 3) ELSE 0
           without == SkipSpaces(t, a)
       IN  IF with # 0 /\ Ok(with) THEN with
           ELSE IF Ok(without) THEN without
           ELSE 0

\* least i >= a from which the code-block pattern matches, or 0
RECURSIVE CodeBlockStart(_, _, _)
CodeBlockStart(t, u, a) ==
  IF a > Len(t) THEN 0
  ELSE IF CodeBlockSelectAt(t, u, a) # 0 THEN a
  ELSE CodeBlockStart(t, u, a + 1)

\* main.py line 64, (SELECT.*?;) with re.I | re.S: least position >= a where
\* SELECT stands with a ";" somewhere after it, or 0
RECURSIVE SelectStart(_, _, _)
SelectStart(t, u, a) ==
  IF a > Len(t) THEN 0
  ELSE IF OccursAt(u, SelectWord, a) /\ FirstSemicolon(t, a + Len(SelectWord)) # 0 THEN a
  ELSE SelectStart(t, u, a + 1)

\* main.py lines 58-68
extract_sql(text) ==
  LET u == upper(text)
      i == CodeBlockStart(text, u, 1)
      s == SelectStart(text, u, 1)
      semi == FirstSemicolon(text, 1)
  IN  IF i # 0
      THEN LET p == CodeBlockSelectAt(text, u, i)
           IN  strip(SubSeq(text, p, LazyEnd(text, p + Len(SelectWord)) - 1))
      ELSE IF s # 0
      THEN strip(SubSeq(text, s, FirstSemicolon(text, s + Len(SelectWord))))
      ELSE IF semi # 0
      THEN strip(SubSeq(text, 1, semi - 1))
      ELSE strip(text)

\* main.py line 112: extract_sql(generated) returns a str and the line calls
\* that str with (generated), which raises TypeError on every input; sql_query
\* is never assigned and lines 113-149 are never reached.  candidate keeps
\* what extract_sql returned.
MainExtractSql ==
  /\ handler = "main"
  /\ pc = "extract"
  /\ candidate' = extract_sql(generated_query)
  /\ Return(UnexpectedResponse(Chars("'str' object is not callable")))
  /\ UNCHANGED <<handler, data, nl_question, top_k, generated_query, sql_query,
                 query_results, results_summary, description, calls>>

Next ==
  \/ Receive
  \/ ExtractLimit
  \/ Generate
  \/ Extract
  \/ Validate
  \/ EnforceLimit
  \/ Execute
  \/ ParseResults
  \/ Describe
  \/ Respond
  \/ MainReceive
  \/ MainExtractLimit
  \/ MainGenerate
  \/ MainExtractSql

Spec == Init /\ [][Next]_vars

(***************************************************************************)
(* Properties.  They are stated over what the collaborators saw (calls)    *)
(* and what the caller received (response), with their own reading of the  *)
(* texts, not with the operators of the handler.                           *)
(***************************************************************************)

App == handler = "app"

Made(fn) == {i \in 1..Len(calls) : calls[i].fn = fn}
Raised(fn) == \E i \in Made(fn) : calls[i].raised
Returned(fn) == \E i \in Made(fn) : ~calls[i].raised

Body == response.body
Keys == DOMAIN response.body

UpperOf(s) == [i \in 1..Len(s) |-> ToUpper(s[i])]
LowerOf(s) == [i \in 1..Len(s) |-> ToLower(s[i])]

KeywordSet == {Chars("SELECT"), Chars("SHOW"), Chars("DESCRIBE")}

LimitKeywordSet == {Chars("limit"), Chars("top"), Chars("first"), Chars("show only")}

\* the first whitespace-delimited token of s
LeadingToken(s) ==
  LET ns == {i \in 1..Len(s) : ~IsSpace(s[i])}
  IN  IF ns = {} THEN <<>>
      ELSE LET a == CHOOSE i \in ns : \A j \in ns : i <= j
               b == CHOOSE i \in a..Len(s) :
                      /\ \A j \in a..i : ~IsSpace(s[j])
                      /\ i = Len(s) \/ IsSpace(s[i + 1])
           IN  SubSeq(s, a, b)

\* s begins, letter case aside, with the letters of an allowed keyword
BeginsWithAllowed(s) ==
  \E kw \in KeywordSet :
     /\ Len(s) >= Len(kw)
     /\ \A j \in 1..Len(kw) : ToUpper(s[j]) = kw[j]

\* the question holds a limit keyword, letter case aside
MentionsLimit(q) ==
  \E kw \in LimitKeywordSet : \E i \in 1..Len(q) :
     /\ i + Len(kw) - 1 <= Len(q)
     /\ \A j \in 1..Len(kw) : ToLower(q[i + j - 1]) = kw[j]

\* the generated text has been normalized and validated
Validated ==
  /\ App
  /\ Returned("sql_query_chain.invoke")
  /\ pc \notin {"extract", "validate"}

\* the request ended in the validation error and the executor was never called
Rejected ==
  /\ pc = "done"
  /\ response.http = 400
  /\ "error" \in Keys
  /\ Made("db.run") = {}

LimitClauseAt(s, i) ==
  /\ i + 4 <= Len(s)
  /\ \A j \in 1..5 : ToUpper(s[i + j - 1]) = Chars("LIMIT")[j]
  /\ \E d \in (i + 6)..Len(s) :
        /\ \A j \in (i + 5)..(d - 1) : IsSpace(s[j])
        /\ IsDigit(s[d])

\* s carries a row-limiting clause LIMIT <integer>
HasRowLimit(s) == \E i \in 1..Len(s) : LimitClauseAt(s, i)

\* C2: when the question holds no limit keyword, the statement handed to
\* db.run and the sql_query of the response carry no row-limiting clause.
C2_NoRowLimitRemains ==
  (App /\ nl_question.t = "str" /\ ~MentionsLimit(nl_question.v)) =>
     /\ \A i \in Made("db.run") : ~HasRowLimit(calls[i].sql)
     /\ (pc = "done" /\ response.http # 400 /\ "sql_query" \in Keys)
           => ~HasRowLimit(Body["sql_query"])

\* a limit keyword stands in s at position i
KeywordAt(s, i) ==
  \E kw \in LimitKeywordSet :
     /\ i + Len(kw) - 1 <= Len(s)
     /\ \A j \in 1..Len(kw) : s[i + j - 1] = kw[j]

\* a limit keyword stands in s at position i, followed by optional
\* whitespace and the whole run of digits s[d..e]
KeywordNumberAt(s, i, d, e) ==
  \E kw \in LimitKeywordSet :
     /\ i + Len(kw) <= d
     /\ d <= e
     /\ e <= Len(s)
     /\ \A j \in 1..Len(kw) : s[i + j - 1] = kw[j]
     /\ \A j \in (i + Len(kw))..(d - 1) : IsSpace(s[j])
     /\ \A j \in d..e : IsDigit(s[j])
     /\ e = Len(s) \/ ~IsDigit(s[e + 1])

\* a limit keyword with its integer stands in s at position i
KeywordWithNumber(s, i) ==
  /\ KeywordAt(s, i)
  /\ \E d \in i..Len(s) : \E e \in d..Len(s) : KeywordNumberAt(s, i, d, e)

\* the number a run of decimal digits denotes, read from the left
RECURSIVE DecimalFrom(_, _, _)
DecimalFrom(s, i, acc) ==
  IF i > Len(s) THEN acc ELSE DecimalFrom(s, i + 1, 10 * acc + DigitVal(s[i]))

SuccessKeys ==
  {"status", "original_question", "generated_query", "sql_query", "query_results",
   "description"}

\* C4: every response of either handler carries exactly one of the keys
\* status and error, a response with status is the full success object, and
\* a request has ended exactly when it has a response.
C4_ExactlyOneShape ==
  /\ (pc = "done") <=> (response.http # 0)
  /\ pc = "done" =>
        /\ ("status" \in Keys) # ("error" \in Keys)
        /\ "status" \in Keys => Keys = SuccessKeys

C4_Witness ==
  /\ App
  /\ pc = "done"
  /\ Keys = SuccessKeys
  /\ "error" \notin Keys

\* the stage at which a request failed, read off the request and the calls
PromptMissing ==
  /\ data.t \in {"null", "object"}
  /\ data.t = "null" \/ "prompt" \notin data.keys

ShapeDisallowed == Returned("sql_query_chain.invoke") /\ ~BeginsWithAllowed(candidate)

GenerationFailed == Raised("sql_query_chain.invoke") \/ Raised("get_table_info")

ExecutionFailed == Raised("db.run")

C6_SummarizationFailureAbsorbed ==
  (App /\ Raised("result_description_chain.invoke")) =>
     /\ pc \in {"respond", "done"}
     /\ pc = "done" =>
           /\ response.http = 200
           /\ Keys = SuccessKeys
           /\ Body["status"] = Chars("success")
           /\ \E i \in Made("db.run") : ~calls[i].raised /\ Body["query_results"] = calls[i].ret
           /\ Body["description"] = Chars("Unable to generate description: ") \o ErrorText

C6_Witness ==
  /\ App
  /\ pc = "done"
  /\ Raised("result_description_chain.invoke")
  /\ response.http = 200
  /\ Len(Body["query_results"]) > 0

\* C7: when db.run raises, the request ends with HTTP 500 and an error
\* object that echoes the generated text and the statement that was
\* attempted; db.run was called once and the summarizer not at all.
C7_ExecutionFailureReported ==
  (App /\ Raised("db.run")) =>
     /\ pc = "done"
     /\ response.http = 500
     /\ Keys = {"error", "generated_query", "sql_query"}
     /\ \E g \in Made("sql_query_chain.invoke") : Body["generated_query"] = calls[g].ret
     /\ \A i \in Made("db.run") : Body["sql_query"] = calls[i].sql
     /\ Cardinality(Made("db.run")) = 1
     /\ Made("result_description_chain.invoke") = {}

C7_Witness ==
  /\ App
  /\ Raised("db.run")
  /\ pc = "done"
  /\ Body["sql_query"] # candidate
  /\ Body["generated_query"] # Body["sql_query"]

\* C8: a request whose body is absent, has no prompt or has a prompt that is
\* not a string ends with HTTP 400 and no collaborator is called.
C8_MalformedPromptIs400 ==
  ( /\ App
    /\ pc = "done"
    /\ data.t \in {"null", "object"}
    /\ \/ data.t = "null"
       \/ "prompt" \notin data.keys
       \/ data.prompt.t # "str" )
  => /\ response.http = 400
     /\ "error" \in Keys
     /\ calls = <<>>

\* s without its leading and trailing whitespace
Trimmed(s) ==
  LET ns == {i \in 1..Len(s) : ~IsSpace(s[i])}
  IN  IF ns = {} THEN <<>>
      ELSE SubSeq(s, CHOOSE i \in ns : \A j \in ns : i <= j,
                     CHOOSE i \in ns : \A j \in ns : j <= i)

\* the first SQL fence marker of g stands at position i
FirstFenceAt(g, i) ==
  /\ OccursAt(g, FenceOpen, i)
  /\ \A b \in 1..(i - 1) : ~OccursAt(g, FenceOpen, b)

\* the block opened at position i is closed, first, at position j
FenceClosedAt(g, i, j) ==
  /\ j >= i + Len(FenceOpen)
  /\ OccursAt(g, FenceClose, j)
  /\ \A b \in (i + Len(FenceOpen))..(j - 1) : ~OccursAt(g, FenceClose, b)

\* C9: when the generated text holds a fenced SQL block, the candidate is the
\* interior of the first such block, trimmed, and holds no fence marker; the
\* fenced `SELECT * FROM cradles LIMIT 3` for `show top 3 cradles` is
\* executed as it stands.
C9_FencedInteriorExtracted ==
  (App /\ Returned("sql_query_chain.invoke") /\ pc # "extract") =>
     /\ \A i \in 1..Len(generated_query) :
           FirstFenceAt(generated_query, i) =>
              \A j \in i..Len(generated_query) :
                 FenceClosedAt(generated_query, i, j) =>
                    /\ candidate = Trimmed(SubSeq(generated_query, i + Len(FenceOpen), j - 1))
                    /\ \A b \in 1..Len(candidate) : ~OccursAt(candidate, FenceClose, b)
     /\ ( /\ nl_question = JStr(Chars("show top 3 cradles"))
          /\ generated_query = FenceOpen \o Chars("\nSELECT * FROM cradles LIMIT 3\n")
                                 \o FenceClose )
        => \A c \in Made("db.run") : calls[c].sql = Chars("SELECT * FROM cradles LIMIT 3")

C9_Witness ==
  /\ App
  /\ pc = "validate"
  /\ generated_query = Chars("Here:\n") \o FenceOpen \o Chars(" SELECT * FROM vessels;")
                         \o FenceClose \o Chars(" and ") \o FenceClose
  /\ candidate = Chars("SELECT * FROM vessels;")

\* C10: when the question holds a limit keyword, the statement handed to
\* db.run and returned as sql_query is the validated candidate, unchanged.
C10_LimitRequestedStatementUnchanged ==
  (App /\ nl_question.t = "str" /\ MentionsLimit(nl_question.v)) =>
     /\ \A i \in Made("db.run") :
           /\ calls[i].sql = candidate
           /\ BeginsWithAllowed(candidate)
     /\ (pc = "done" /\ Made("db.run") # {} /\ "sql_query" \in Keys)
           => Body["sql_query"] = candidate

C10_Witness ==
  /\ App
  /\ pc = "done"
  /\ nl_question = JStr(Chars("show top 3 cradles"))
  /\ Keys = SuccessKeys
  /\ Body["sql_query"] = Chars("SELECT * FROM cradles LIMIT 3")
  /\ \E i \in Made("db.run") : calls[i].sql = Chars("SELECT * FROM cradles LIMIT 3")

\* C11: in both handlers, a request that carries a prompt, whose generated
\* text normalizes to a statement beginning with an allowed keyword and whose
\* database execution does not fail, ends with the success response after
\* db.run and the summarizer were called; a request that ends otherwise after
\* generation ended in the validation error or in the execution error.
C11_LinearFlowReachesDone ==
  (pc = "done" /\ nl_question.t = "str" /\ Returned("sql_query_chain.invoke")) =>
     /\ (BeginsWithAllowed(candidate) /\ ~Raised("db.run")) =>
           /\ response.http = 200
           /\ Keys = SuccessKeys
           /\ Returned("db.run")
           /\ Made("result_description_chain.invoke") # {}
     /\ response.http # 200 => (Rejected \/ ExecutionFailed)

\* the three external calls of one request, in the order of the pipeline
ExternalCalls == <<"sql_query_chain.invoke", "db.run", "result_description_chain.invoke">>

\* C12: within one request of app.py the SQL-synthesis call, the database
\* execution and the summarization call are each made at most once and in
\* that order, a later one only after the earlier one returned; no call
\* follows a failed call of the same collaborator.
C12_EachCallOnceInOrder ==
  App =>
     /\ \A n \in 1..3 : Cardinality(Made(ExternalCalls[n])) <= 1
     /\ \A n \in 1..2 : \A j \in Made(ExternalCalls[n + 1]) :
           \E i \in Made(ExternalCalls[n]) : i < j /\ ~calls[i].raised
     /\ \A i \in 1..Len(calls) : \A j \in (i + 1)..Len(calls) :
           (calls[i].raised /\ calls[i].fn \in {ExternalCalls[n] : n \in 1..3})
              => calls[j].fn # calls[i].fn

C12_Witness ==
  /\ App
  /\ pc = "done"
  /\ \A n \in 1..3 : Cardinality(Made(ExternalCalls[n])) = 1
  /\ Returned("sql_query_chain.invoke")
  /\ Returned("db.run")
  /\ Raised("result_description_chain.invoke")

\* s without one trailing ";" and the whitespace around what is left
WithoutTerminator(s) ==
  IF Len(s) > 0 /\ s[Len(s)] = ";" THEN Trimmed(SubSeq(s, 1, Len(s) - 1)) ELSE s

\* s, trimmed, without a leading SQLQuery: label
Unlabelled(s) ==
  LET t == Trimmed(s)
      label == Chars("SQLQuery:")
  IN  IF Len(t) >= Len(label) /\ SubSeq(t, 1, Len(label)) = label
      THEN Trimmed(SubSeq(t, Len(label) + 1, Len(t)))
      ELSE t

\* the generated text holds a fenced SQL block
HasFencedBlock(g) ==
  \E i \in 1..Len(g) : FirstFenceAt(g, i) /\ \E j \in i..Len(g) : FenceClosedAt(g, i, j)

\* C13: on every extraction branch of app.py the candidate handed to the
\* validator is the extracted statement without exactly one trailing ";" and
\* without surrounding whitespace: the interior of the fenced block, the
\* text after the SQLQuery: label, or the raw text.
C13_OneTerminatorStripped ==
  (App /\ Returned("sql_query_chain.invoke") /\ pc # "extract") =>
     /\ \A i \in 1..Len(generated_query) :
           FirstFenceAt(generated_query, i) =>
              \A j \in i..Len(generated_query) :
                 FenceClosedAt(generated_query, i, j) =>
                    candidate = WithoutTerminator(
                                   Trimmed(SubSeq(generated_query, i + Len(FenceOpen), j - 1)))
     /\ ~HasFencedBlock(generated_query) =>
           candidate = WithoutTerminator(Unlabelled(generated_query))

\* the text of a ResultSet of n rows
RowListText(n) == Chars("[") \o RowsText(n) \o Chars("]")

\* what the summarizer is to be given for the ResultSet r: the first at most
\* SampleRows rows when r reads as a sequence of rows (none when r is empty),
\* r itself otherwise
ExpectedSummary(r) ==
  IF r = <<>> THEN RowListText(0)
  ELSE IF \E n \in 0..(MaxRows + 1) : r = RowListText(n)
  THEN LET n == CHOOSE n \in 0..(MaxRows + 1) : r = RowListText(n)
       IN  RowListText(IF n < SampleRows THEN n ELSE SampleRows)
  ELSE r

\* C14: whatever text db.run returns without raising, the request of app.py
\* ends with the success response whose query_results is that text, after
\* the summarizer was called with the first at most 5 rows of the ResultSet
\* or, when the text does not read as a sequence of rows, with the text
\* itself.
C14_EveryResultSetSummarized ==
  (App /\ pc = "done" /\ Returned("db.run")) =>
     /\ Made("result_description_chain.invoke") # {}
     /\ \A i \in Made("db.run") : results_summary = ExpectedSummary(calls[i].ret)
     /\ response.http = 200
     /\ Keys = SuccessKeys
     /\ \A i \in Made("db.run") : Body["query_results"] = calls[i].ret

====
